---- MODULE Spec2Model ----
(***************************************************************************)
(* State-machine model of src/sec_data_downloader.py: the download loop of *)
(* download_sec_filings (fetch limit, external fetch, directory walk with  *)
(* metadata extraction, fixed delays), analyze_results, and a re-run of    *)
(* the script against the same download root.                              *)
(***************************************************************************)
EXTENDS Integers, Sequences, FiniteSets, TLC

\* ------------------------------------------------------------------ bounds
MaxTickers == 2      \* longest ticker list drawn
MaxDirs == 2         \* directories the fetches create in the whole tree
MaxRuns == 2         \* invocations of the script against one download root
RerunTickers == 1    \* longest ticker list of a repeated invocation
RerunDirs == 1       \* directories the fetches create over repeated invocations
MinYear == 2014      \* earliest year drawn for the fetch-limit function
MaxYear == 2024      \* latest year drawn for the fetch-limit function
MaxFiles == 2        \* files per directory in the walk specification
MaxWalkDirs == 2     \* directories per tree in the walk specification
MaxInvLen == 3       \* inventory length in the analysis specification
MaxAnalyses == 2     \* applications of analyze_results to one inventory

\* ------------------------------------------------------- program constants
FloorK == 5          \* max(5, ...)
FloorQ == 15         \* max(15, ...)
PerYearQ == 4        \* years_difference * 4
ReadChars == 10000   \* f.read(10000)
SleepOk == 1         \* time.sleep(1)
SleepFail == 10      \* time.sleep(10)

Unknown == <<"Unknown">>

\* ------------------------------------------------------------ text helpers
Digits == <<"0", "1", "2", "3", "4", "5", "6", "7", "8", "9">>

DigitVal(c) == (CHOOSE k \in 1..10 : Digits[k] = c) - 1

IsDigit(c) == \E k \in 1..10 : Digits[k] = c

\* int(s) for a string of decimal digits
RECURSIVE ParseInt(_)
ParseInt(s) ==
  IF Len(s) = 0 THEN 0
  ELSE ParseInt(SubSeq(s, 1, Len(s) - 1)) * 10 + DigitVal(s[Len(s)])

\* the user's four-digit year text
YearText(y) ==
  << Digits[((y \div 1000) % 10) + 1], Digits[((y \div 100) % 10) + 1],
     Digits[((y \div 10) % 10) + 1], Digits[(y % 10) + 1] >>

\* f"{year}-{month}-{day}"
MkDate(year, month, day) == year \o <<"-">> \o month \o <<"-">> \o day

\* s.split(sep)
RECURSIVE Split(_, _)
Split(s, sep) ==
  IF \A k \in 1..Len(s) : s[k] # sep THEN << s >>
  ELSE LET p == CHOOSE k \in 1..Len(s) :
                  s[k] = sep /\ \A m \in 1..(k - 1) : s[m] # sep
       IN << SubSeq(s, 1, p - 1) >> \o Split(SubSeq(s, p + 1, Len(s)), sep)

Max(a, b) == IF a >= b THEN a ELSE b

\* -------------------------------------------------------- fetch limit
\* the span without its + 1
FetchLimit_exclusive(filing_type, start_date, end_date) ==
  LET start_year == ParseInt(Split(start_date, "-")[1])
      end_year == ParseInt(Split(end_date, "-")[1])
      years_difference == end_year - start_year
  IN IF filing_type = "10-K"
       THEN Max(FloorK, years_difference)
       ELSE Max(FloorQ, years_difference * PerYearQ)

FetchLimit(filing_type, start_date, end_date) ==
  LET start_year == ParseInt(Split(start_date, "-")[1])
      end_year == ParseInt(Split(end_date, "-")[1])
      years_difference == end_year - start_year + 1
  IN IF filing_type = "10-K"
       THEN Max(FloorK, years_difference)
       ELSE Max(FloorQ, years_difference * PerYearQ)

\* ------------------------------------------------- files and directories
\* A file name is its sequence of parts, a text is its sequence of header
\* lines; `end` is the offset in the file at which the line's digits end.
DetailsTxt == <<"filing-details", ".txt">>
DetailsHtml == <<"filing-details", ".html">>
SubmissionTxt == <<"full-submission", ".txt">>

FiledLabel == "FILED AS OF DATE:"
PeriodLabel == "CONFORMED PERIOD OF REPORT:"

Line(label, ws, digits, end) ==
  [label |-> label, ws |-> ws, digits |-> digits, end |-> end]

File(name, readable, content) ==
  [name |-> name, readable |-> readable, content |-> content]

D20230415 == <<"2", "0", "2", "3", "0", "4", "1", "5">>
D20221231 == <<"2", "0", "2", "2", "1", "2", "3", "1">>
D2023041 == <<"2", "0", "2", "3", "0", "4", "1">>

\* file.endswith(".txt") and "filing-details" in file
IsDetailsText(name) ==
  /\ Len(name) > 0
  /\ name[Len(name)] = ".txt"
  /\ \E k \in 1..Len(name) : name[k] = "filing-details"

\* re.search(label + r'\s+(\d{8})', content) on the first ReadChars
\* characters: the first line that matches, or <<>> for no match
Search(label, content) ==
  LET hits == { k \in 1..Len(content) :
                  /\ content[k].label = label
                  /\ content[k].ws >= 1
                  /\ Len(content[k].digits) >= 8
                  /\ \A m \in 1..8 : IsDigit(content[k].digits[m])
                  /\ content[k].end <= ReadChars }
  IN IF hits = {} THEN <<>>
     ELSE LET first == CHOOSE k \in hits : \A m \in hits : k <= m
          IN SubSeq(content[first].digits, 1, 8)

\* f"{s[:4]}-{s[4:6]}-{s[6:8]}"
Reformat(s) ==
  SubSeq(s, 1, 4) \o <<"-">> \o SubSeq(s, 5, 6) \o <<"-">> \o SubSeq(s, 7, 8)

Meta(filing_date, period_of_report) ==
  [filing_date |-> filing_date, period_of_report |-> period_of_report]

\* the period searched only when the filing date matched
ExtractFile_nested(file, meta) ==
  IF ~IsDetailsText(file.name) THEN meta
  ELSE IF ~file.readable THEN meta
  ELSE LET date_match == Search(FiledLabel, file.content)
           period_match == Search(PeriodLabel, file.content)
       IN IF date_match = <<>> THEN meta
          ELSE Meta(Reformat(date_match),
                    IF period_match # <<>> THEN Reformat(period_match)
                                           ELSE meta.period_of_report)

\* the body of `for file in files` for one file
ExtractFile(file, meta) ==
  IF ~IsDetailsText(file.name) THEN meta
  ELSE IF ~file.readable THEN meta
  ELSE LET date_match == Search(FiledLabel, file.content)
           period_match == Search(PeriodLabel, file.content)
       IN Meta(IF date_match # <<>> THEN Reformat(date_match)
                                    ELSE meta.filing_date,
               IF period_match # <<>> THEN Reformat(period_match)
                                      ELSE meta.period_of_report)

RECURSIVE ExtractFiles(_, _)
ExtractFiles(files, meta) ==
  IF Len(files) = 0 THEN meta
  ELSE ExtractFiles(Tail(files), ExtractFile(Head(files), meta))

\* os.path.basename(root)
Basename(path) == path[Len(path)]

\* the file-count test left out
Accepted_any(entry) == entry.path # <<>>

\* len(files) > 0 and root != ticker_path
Accepted(entry) == Len(entry.files) > 0 /\ entry.path # <<>>

\* the rows one visited directory appends
RowsOfEntry(ticker, filing_type, entry) ==
  IF Accepted(entry)
    THEN LET meta == ExtractFiles(entry.files, Meta(Unknown, Unknown))
         IN << [ticker |-> ticker,
                filing_type |-> filing_type,
                filing_date |-> meta.filing_date,
                accession_number |-> Basename(entry.path),
                file_count |-> Len(entry.files),
                period_of_report |-> meta.period_of_report] >>
    ELSE << >>

\* os.walk(ticker_path): the tree is the sequence of its directories in
\* the order the walk visits them, the root first; <<>> is a missing path
RECURSIVE WalkRows(_, _, _)
WalkRows(ticker, filing_type, tree) ==
  IF Len(tree) = 0 THEN << >>
  ELSE RowsOfEntry(ticker, filing_type, Head(tree))
         \o WalkRows(ticker, filing_type, Tail(tree))

\* ------------------------------------------------------------------ state
VARIABLES
  tickers,        \* the ticker list of the request
  filing_types,   \* the filing-type list of the request
  start_date,     \* "YYYY-MM-DD" as a sequence of characters
  end_date,
  disk,           \* ticker_path -> tree under <downloads_dir>/sec-edgar-filings
  remote,         \* filings the remote source has not delivered yet
  inventory,      \* results: the rows appended so far, in order
  i,              \* position of the outer loop in tickers
  j,              \* position of the inner loop in filing_types
  pc,             \* statement the loop is at
  run,            \* number of the current invocation
  outcome,        \* "none", or how the latest dl.get ended: "ok" / "raised"
  delays,         \* the sleeps taken since the latest dl.get
  calls,          \* the dl.get calls of this run, in order
  before,         \* inventory as it was when the latest dl.get was issued
  expected,       \* rows of the pairs whose dl.get returned, this run
  raised,         \* ticker_paths whose dl.get raised in this run
  added,          \* <<ticker_path, accession>> created by this run's dl.get
  prevInventory,  \* final inventory of the previous run
  prevRaised,     \* `raised` of the previous run
  limit,          \* the limit computed last
  summary,        \* result of the latest analyze_results
  prevSummary,    \* result of the analyze_results before it
  analyses        \* number of analyze_results applications

vars == << tickers, filing_types, start_date, end_date, disk, remote, inventory, i, j,
           pc, run, outcome, delays, calls, before, expected, raised, added,
           prevInventory, prevRaised, limit, summary, prevSummary, analyses >>

request == << tickers, filing_types, start_date, end_date >>
analysis == << summary, prevSummary, analyses >>
history == << prevInventory, prevRaised >>

\* ---------------------------------------------------------------- inputs
Tickers == {"GM", "TSLA"}
FilingTypeLists == { <<"10-K">>, <<"10-Q">>, <<"10-K", "10-Q">> }
AllPaths == Tickers \X {"10-K", "10-Q"}
AccNames == <<"0001", "0002", "0003", "0004">>

SeqsUpTo(S, n) == UNION { [1..m -> S] : m \in 0..n }

TickerLists == SeqsUpTo(Tickers, MaxTickers) \ { <<>> }

HeaderBoth == << Line(PeriodLabel, 1, D20221231, 90),
                 Line(FiledLabel, 1, D20230415, 120) >>

\* what a fetch may write into a new accession directory
FetchedFiles ==
  { << >>,
    << File(DetailsTxt, TRUE, HeaderBoth) >>,
    << File(SubmissionTxt, TRUE, HeaderBoth), File(DetailsHtml, TRUE, <<>>) >> }

Dir(path, files) == [path |-> path, files |-> files]

\* the tree with one more accession directory, the root created if missing
WithNewDir(tree, files) ==
  LET base == IF Len(tree) = 0 THEN << Dir(<<>>, <<>>) >> ELSE tree
  IN Append(base, Dir(<< AccNames[Len(base)] >>, files))

\* the trees dl.get can leave at ticker_path, whether it returns or raises
FetchEffects(d, path) ==
  { d[path] } \cup
  { WithNewDir(d[path], fs) : fs \in IF remote > 0 THEN FetchedFiles ELSE {} }

\* ------------------------------------------------------------ control flow
\* the politeness wait forgotten
OkSteps_nosleep == << "walk" >>

\* the wait before the directory walk
OkSteps_waitfirst == << "sleep1", "walk" >>

\* the statements after dl.get returned
OkSteps == << "walk", "sleep1" >>

\* the except branch indexing what is on disk
FailSteps_walk == << "walk", "sleep10" >>

\* the except branch
FailSteps == << "sleep10" >>

Steps == IF outcome = "ok" THEN OkSteps ELSE FailSteps

\* a failure ending the loops
NextPos_abort(ti, fj) ==
  IF outcome = "raised" THEN [i |-> ti, j |-> fj, pc |-> "done"]
  ELSE IF fj < Len(filing_types) THEN [i |-> ti, j |-> fj + 1, pc |-> "fetch"]
  ELSE IF ti < Len(tickers) THEN [i |-> ti + 1, j |-> 1, pc |-> "fetch"]
  ELSE [i |-> ti, j |-> fj, pc |-> "done"]

\* where the loop goes once the current pair is finished
NextPos(ti, fj) ==
  IF fj < Len(filing_types) THEN [i |-> ti, j |-> fj + 1, pc |-> "fetch"]
  ELSE IF ti < Len(tickers) THEN [i |-> ti + 1, j |-> 1, pc |-> "fetch"]
  ELSE [i |-> ti, j |-> fj, pc |-> "done"]

\* the statement after step number k of `steps`
After(steps, k) ==
  IF k < Len(steps) THEN [i |-> i, j |-> j, pc |-> steps[k + 1]]
  ELSE NextPos(i, j)

StepNo == CHOOSE k \in 1..Len(Steps) : Steps[k] = pc

\* the directory dl.get(filing_type, ticker, ...) writes under
ticker_path == << tickers[i], filing_types[j] >>

\* the path built from the last filing type instead of the current one
walk_path_last == << tickers[i], filing_types[Len(filing_types)] >>

\* ticker_path = f"{downloads_dir}/sec-edgar-filings/{ticker}/{filing_type}"
walk_path == << tickers[i], filing_types[j] >>

Init ==
  /\ tickers \in TickerLists
  /\ filing_types \in FilingTypeLists
  /\ start_date = MkDate(YearText(2020), <<"0", "1">>, <<"0", "1">>)
  /\ end_date = MkDate(YearText(2023), <<"1", "2">>, <<"3", "1">>)
  /\ disk = [p \in AllPaths |-> << >>]
  /\ remote = MaxDirs
  /\ inventory = << >>
  /\ i = 1 /\ j = 1 /\ pc = "fetch" /\ run = 1
  /\ outcome = "none" /\ delays = << >> /\ calls = << >>
  /\ before = << >> /\ expected = << >> /\ raised = {} /\ added = {}
  /\ prevInventory = << >> /\ prevRaised = {}
  /\ limit = 0
  /\ summary = << >> /\ prevSummary = << >> /\ analyses = 0

\* limit computation and dl.get(filing_type, ticker, limit, after, before)
Fetch ==
  /\ pc = "fetch"
  /\ \E ok \in BOOLEAN, tree \in FetchEffects(disk, ticker_path) :
       LET lim == FetchLimit(filing_types[j], start_date, end_date)
           steps == IF ok THEN OkSteps ELSE FailSteps
           nxt == After(steps, 0)
           fresh == { << ticker_path, Basename(tree[k].path) >> :
                        k \in { m \in 1..Len(tree) :
                                  /\ m > Len(disk[ticker_path])
                                  /\ tree[m].path # << >> } }
       IN /\ limit' = lim
          /\ calls' = Append(calls, [filing_type |-> filing_types[j],
                                     ticker |-> tickers[i],
                                     limit |-> lim,
                                     after |-> start_date,
                                     before |-> end_date])
          /\ disk' = [disk EXCEPT ![ticker_path] = tree]
          /\ remote' = IF tree = disk[ticker_path] THEN remote ELSE remote - 1
          /\ outcome' = IF ok THEN "ok" ELSE "raised"
          /\ raised' = IF ok THEN raised ELSE raised \cup { ticker_path }
          /\ added' = added \cup fresh
          /\ expected' = IF ok
                           THEN expected \o WalkRows(tickers[i], filing_types[j], tree)
                           ELSE expected
          /\ before' = inventory
          /\ delays' = << >>
          /\ i' = nxt.i /\ j' = nxt.j /\ pc' = nxt.pc
  /\ UNCHANGED << request, inventory, run, history, analysis >>

\* if os.path.exists(ticker_path): for root, dirs, files in os.walk(...)
Walk ==
  /\ pc = "walk"
  /\ inventory' = inventory \o WalkRows(tickers[i], filing_types[j], disk[walk_path])
  /\ LET nxt == After(Steps, StepNo)
     IN i' = nxt.i /\ j' = nxt.j /\ pc' = nxt.pc
  /\ UNCHANGED << request, disk, remote, run, outcome, delays, calls, before, expected,
                  raised, added, history, limit, analysis >>

Sleep(at, units) ==
  /\ pc = at
  /\ delays' = Append(delays, units)
  /\ LET nxt == After(Steps, StepNo)
     IN i' = nxt.i /\ j' = nxt.j /\ pc' = nxt.pc
  /\ UNCHANGED << request, disk, remote, inventory, run, outcome, calls, before,
                  expected, raised, added, history, limit, analysis >>

\* time.sleep(1)
SleepOne == Sleep("sleep1", SleepOk)

\* time.sleep(10)
SleepTen == Sleep("sleep10", SleepFail)

\* the script is started again on the same download root, same request
Rerun ==
  /\ pc = "done"
  /\ run < MaxRuns
  /\ run' = run + 1
  /\ prevInventory' = inventory
  /\ prevRaised' = raised
  /\ inventory' = << >>
  /\ i' = 1 /\ j' = 1 /\ pc' = "fetch"
  /\ outcome' = "none" /\ delays' = << >> /\ calls' = << >>
  /\ before' = << >> /\ expected' = << >> /\ raised' = {} /\ added' = {}
  /\ UNCHANGED << request, disk, remote, limit, analysis >>

\* one invocation of download_sec_filings
Next == Fetch \/ Walk \/ SleepOne \/ SleepTen

Spec == Init /\ [][Next]_vars

\* invocations repeated on one download root
NextRerun == Fetch \/ Walk \/ SleepOne \/ SleepTen \/ Rerun

InitRerun ==
  /\ tickers \in SeqsUpTo(Tickers, RerunTickers) \ { << >> }
  /\ filing_types \in FilingTypeLists
  /\ start_date = MkDate(YearText(2020), <<"0", "1">>, <<"0", "1">>)
  /\ end_date = MkDate(YearText(2023), <<"1", "2">>, <<"3", "1">>)
  /\ disk = [p \in AllPaths |-> << >>]
  /\ remote = RerunDirs
  /\ inventory = << >>
  /\ i = 1 /\ j = 1 /\ pc = "fetch" /\ run = 1
  /\ outcome = "none" /\ delays = << >> /\ calls = << >>
  /\ before = << >> /\ expected = << >> /\ raised = {} /\ added = {}
  /\ prevInventory = << >> /\ prevRaised = {}
  /\ limit = 0
  /\ summary = << >> /\ prevSummary = << >> /\ analyses = 0

SpecRerun == InitRerun /\ [][NextRerun]_vars

\* --------------------------------------------- the walk on arbitrary trees
HeaderFiledOnly == << Line(FiledLabel, 1, D20230415, 120),
                      Line(PeriodLabel, 1, D20221231, 10030) >>
HeaderPeriodOnly == << Line(PeriodLabel, 2, D20221231, 90),
                       Line(FiledLabel, 1, D2023041, 119),
                       Line(FiledLabel, 0, D20230415, 150) >>

WalkFiles ==
  { File(DetailsTxt, TRUE, HeaderBoth),
    File(DetailsTxt, TRUE, HeaderFiledOnly),
    File(DetailsTxt, TRUE, HeaderPeriodOnly),
    File(DetailsTxt, FALSE, HeaderBoth),
    File(SubmissionTxt, TRUE, HeaderBoth) }

FileSeqs == SeqsUpTo(WalkFiles, MaxFiles)

\* n files without metadata
Plain(n) == [k \in 1..n |-> File(DetailsHtml, TRUE, << >>)]

TopPaths == { << "0001" >>, << "0002" >> }
NestedPaths == { << "0001", "0001" >>, << "0001", "0002" >> }

\* a directory sequence is a tree when paths differ and parents come first
IsTree(dirs) ==
  /\ \A a, b \in 1..Len(dirs) : a # b => dirs[a].path # dirs[b].path
  /\ \A b \in 1..Len(dirs) :
       Len(dirs[b].path) = 2 =>
         \E a \in 1..(b - 1) : dirs[a].path = << dirs[b].path[1] >>

\* trees of every shape, files without metadata
ShapeTrees ==
  { << Dir(<< >>, Plain(r)) >> \o dirs :
      r \in 0..1,
      dirs \in { ds \in SeqsUpTo({ Dir(p, Plain(n)) :
                                     p \in TopPaths \cup NestedPaths,
                                     n \in 0..MaxFiles }, MaxWalkDirs) :
                   IsTree(ds) } }

\* one accession directory, or one directory nested in an empty one, with
\* every file sequence
ContentTrees ==
  { << Dir(<< >>, << >>), Dir(<< "0001" >>, fs) >> : fs \in FileSeqs } \cup
  { << Dir(<< >>, << >>), Dir(<< "0001" >>, << >>),
       Dir(<< "0001", "0002" >>, fs) >> : fs \in FileSeqs }

WalkTrees == { << >> } \cup ShapeTrees \cup ContentTrees

\* dl.get has just returned for the only pair; the tree is any of WalkTrees
InitWalk ==
  /\ tickers = << "TSLA" >>
  /\ filing_types \in { << "10-K" >>, << "10-Q" >> }
  /\ start_date = MkDate(YearText(2020), <<"0", "1">>, <<"0", "1">>)
  /\ end_date = MkDate(YearText(2023), <<"1", "2">>, <<"3", "1">>)
  /\ \E tree \in WalkTrees :
       disk = [p \in AllPaths |->
                 IF p = << "TSLA", filing_types[1] >> THEN tree ELSE << >>]
  /\ remote = 0
  /\ inventory = << >>
  /\ i = 1 /\ j = 1 /\ pc = "walk" /\ run = 1
  /\ outcome = "ok" /\ delays = << >> /\ calls = << >>
  /\ before = << >> /\ expected = << >> /\ raised = {} /\ added = {}
  /\ prevInventory = << >> /\ prevRaised = {}
  /\ limit = 0
  /\ summary = << >> /\ prevSummary = << >> /\ analyses = 0

NextWalk == Walk \/ SleepOne

SpecWalk == InitWalk /\ [][NextWalk]_vars

\* ------------------------------------------------ the fetch limit alone
InitLimit ==
  /\ tickers = << "TSLA" >>
  /\ filing_types \in FilingTypeLists
  /\ \E y \in MinYear..MaxYear :
       start_date = MkDate(YearText(y), <<"0", "1">>, <<"0", "1">>)
  /\ \E y \in MinYear..MaxYear :
       end_date = MkDate(YearText(y), <<"1", "2">>, <<"3", "1">>)
  /\ disk = [p \in AllPaths |-> << >>]
  /\ remote = 0
  /\ inventory = << >>
  /\ i = 1 /\ j = 1 /\ pc = "limit" /\ run = 1
  /\ outcome = "none" /\ delays = << >> /\ calls = << >>
  /\ before = << >> /\ expected = << >> /\ raised = {} /\ added = {}
  /\ prevInventory = << >> /\ prevRaised = {}
  /\ limit = 0
  /\ summary = << >> /\ prevSummary = << >> /\ analyses = 0

\* the limit computation for the filing type at j, then the next type
ComputeLimit ==
  /\ pc = "limit"
  /\ limit' = FetchLimit(filing_types[j], start_date, end_date)
  /\ IF j < Len(filing_types)
       THEN j' = j + 1 /\ pc' = "limit"
       ELSE j' = j /\ pc' = "limited"
  /\ UNCHANGED << request, disk, remote, inventory, i, run, outcome, delays, calls,
                  before, expected, raised, added, history, analysis >>

NextLimit == ComputeLimit

SpecLimit == InitLimit /\ [][NextLimit]_vars

\* -------------------------------------------------------- analyze_results
\* groupby sorts the group keys
SortedKeys == << << "GM", "10-K" >>, << "GM", "10-Q" >>,
                 << "TSLA", "10-K" >>, << "TSLA", "10-Q" >> >>

\* agg 'sum' over file_count
RECURSIVE SumFileCount(_)
SumFileCount(rows) ==
  IF Len(rows) = 0 THEN 0 ELSE Head(rows).file_count + SumFileCount(Tail(rows))

\* agg 'nunique' in place of 'count'
CountAccession_unique(rows) ==
  Cardinality({ rows[k].accession_number : k \in 1..Len(rows) })

\* agg 'count' over accession_number
CountAccession(rows) == Len(rows)

RECURSIVE GroupBy(_, _)
GroupBy(df, keys) ==
  IF Len(keys) = 0 THEN << >>
  ELSE LET key == Head(keys)
           InGroup(r) == r.ticker = key[1] /\ r.filing_type = key[2]
           rows == SelectSeq(df, InGroup)
       IN (IF Len(rows) = 0 THEN << >>
           ELSE << [ticker |-> key[1],
                    filing_type |-> key[2],
                    filing_count |-> CountAccession(rows),
                    total_files |-> SumFileCount(rows)] >>)
          \o GroupBy(df, Tail(keys))

analyze_results(results_df) ==
  IF Len(results_df) = 0 THEN << >> ELSE GroupBy(results_df, SortedKeys)

AnalysisRows ==
  { [ticker |-> t, filing_type |-> f, filing_date |-> Unknown,
     accession_number |-> a, file_count |-> n, period_of_report |-> Unknown] :
      t \in Tickers, f \in {"10-K", "10-Q"}, a \in {"0001"}, n \in 1..2 }

InitAnalyze ==
  /\ tickers = << "TSLA" >>
  /\ filing_types = << "10-K" >>
  /\ start_date = MkDate(YearText(2020), <<"0", "1">>, <<"0", "1">>)
  /\ end_date = MkDate(YearText(2023), <<"1", "2">>, <<"3", "1">>)
  /\ disk = [p \in AllPaths |-> << >>]
  /\ remote = 0
  /\ inventory \in SeqsUpTo(AnalysisRows, MaxInvLen)
  /\ i = 1 /\ j = 1 /\ pc = "done" /\ run = 1
  /\ outcome = "none" /\ delays = << >> /\ calls = << >>
  /\ before = inventory /\ expected = << >> /\ raised = {} /\ added = {}
  /\ prevInventory = << >> /\ prevRaised = {}
  /\ limit = 0
  /\ summary = << >> /\ prevSummary = << >> /\ analyses = 0

Analyze ==
  /\ pc = "done"
  /\ analyses < MaxAnalyses
  /\ summary' = analyze_results(inventory)
  /\ prevSummary' = summary
  /\ analyses' = analyses + 1
  /\ UNCHANGED << request, disk, remote, inventory, i, j, pc, run, outcome, delays,
                  calls, before, expected, raised, added, history, limit >>

NextAnalyze == Analyze

SpecAnalyze == InitAnalyze /\ [][NextAnalyze]_vars

\* ================================================================= claims
Key(r) == << r.ticker, r.filing_type, r.accession_number >>

Occurrences(r, rows) == Cardinality({ k \in 1..Len(rows) : rows[k] = r })

\* the pair the k-th call of a run is for, in ticker-major order
PairAt(k) ==
  << tickers[((k - 1) \div Len(filing_types)) + 1],
     filing_types[((k - 1) % Len(filing_types)) + 1] >>

\* statements executed so far in this run, as a number that grows
Rank ==
  3 * Len(calls) + (CASE pc = "walk" -> 1
                      [] pc \in {"sleep1", "sleep10"} -> 2
                      [] OTHER -> 3)

\* C1 (state part): the calls issued so far are the first pairs of the
\* Cartesian product in ticker-major order, one call per pair; a run that
\* is not done stands at a statement of the loop, inside both lists; when
\* the run is done every pair has been called exactly once and every row
\* of a pair whose fetch returned is in the inventory.
C1_Safe ==
  /\ Len(calls) <= Len(tickers) * Len(filing_types)
  /\ \A k \in 1..Len(calls) :
       << calls[k].ticker, calls[k].filing_type >> = PairAt(k)
  /\ pc # "done" =>
       /\ pc \in {"fetch", "walk", "sleep1", "sleep10"}
       /\ i \in 1..Len(tickers) /\ j \in 1..Len(filing_types)
       /\ pc = "fetch" => Len(calls) < Len(tickers) * Len(filing_types)
  /\ pc = "done" =>
       /\ Len(calls) = Len(tickers) * Len(filing_types)
       /\ \A k \in 1..Len(expected) :
            Occurrences(expected[k], inventory) >= Occurrences(expected[k], expected)

\* C1: for every ticker list, filing-type list and pattern of fetch
\* outcomes, download_sec_filings issues exactly one fetch per pair of the
\* Cartesian product in ticker-major order and then completes (every step
\* moves the run forward and no state short of the end is left without a
\* statement to execute); a failure does not stop later pairs, and the rows
\* of the pairs whose fetch returned are all in the final inventory.
C1_Theorem == [](C1_Safe) /\ [][Rank' > Rank]_vars

\* a run that is done, had a failure, and whose last pair returned and
\* contributed rows after it
C1_Witness ==
  /\ pc = "done"
  /\ raised # {}
  /\ outcome = "ok"
  /\ Len(inventory) > Len(before)
  /\ Len(calls) >= 2

\* C2: when the fetch of a pair raises, the pair yields no rows: from the
\* raise until the next fetch the inventory is what it was before the
\* pair's iteration, whatever directories are on disk for the pair.
C2_Theorem == outcome = "raised" => inventory = before

\* the iteration of a failed pair is over and its directory holds
\* submissions with files
C2_Witness ==
  /\ pc = "done"
  /\ outcome = "raised"
  /\ delays = << SleepFail >>
  /\ WalkRows(tickers[i], filing_types[j], disk[ticker_path]) # << >>

\* C3: no two inventory rows share (ticker, filing_type, accession_number),
\* also for a ticker list that names a ticker twice.
C3_Unique ==
  \A a, b \in 1..Len(inventory) :
    a # b => Key(inventory[a]) # Key(inventory[b])

\* C7: between a fetch and the next fetch (or the end of the run) exactly
\* one delay occurs, 1 unit if the fetch returned and 10 if it raised;
\* no iteration takes both delays and none takes neither.
C7_Theorem ==
  /\ Len(delays) <= 1
  /\ (pc \in {"fetch", "done"} /\ outcome = "ok") => delays = << 1 >>
  /\ (pc \in {"fetch", "done"} /\ outcome = "raised") => delays = << 10 >>

\* the next fetch is about to be issued after a fetch that returned, in a
\* run that also had a failure
C7_Witness ==
  /\ pc = "fetch"
  /\ outcome = "ok"
  /\ delays = << 1 >>
  /\ raised # {}

\* C9 as stated: no row of a pair is appended before the pair's 1-unit
\* wait has elapsed.
C9_Original ==
  (outcome = "ok" /\ Len(inventory) > Len(before)) => delays # << >>

\* C9 as amended: after a fetch that returned, the directory walk comes
\* first and the 1-unit wait after it: the walk runs with no wait taken,
\* and once the wait has been taken the pair's rows are all appended.
C9_Amended ==
  /\ pc = "walk" => delays = << >>
  /\ (outcome = "ok" /\ delays # << >>) => inventory = expected

\* the pair's rows are appended and its wait has not been taken yet
C9_Witness ==
  /\ pc = "sleep1"
  /\ outcome = "ok"
  /\ Len(inventory) > Len(before)
  /\ delays = << >>

\* ------------------------------------------------------------ C4, C8
TreeWalked == disk[<< "TSLA", filing_types[1] >>]

\* positions of the directories below the root that hold a file
Holding(tree) ==
  { k \in 1..Len(tree) : tree[k].path # << >> /\ Len(tree[k].files) > 0 }

\* C4: every inventory row has file_count > 0; a directory without files
\* never produces a row and the filing-type root never produces one: after
\* the walk there are no more rows than directories below the root that
\* hold a file, and every row is the row of such a directory.
C4_Theorem ==
  /\ \A k \in 1..Len(inventory) : inventory[k].file_count > 0
  /\ pc # "walk" =>
       /\ Len(inventory) <= Cardinality(Holding(TreeWalked))
       /\ \A k \in 1..Len(inventory) :
            \E d \in Holding(TreeWalked) :
              /\ inventory[k].accession_number
                   = TreeWalked[d].path[Len(TreeWalked[d].path)]
              /\ inventory[k].file_count = Len(TreeWalked[d].files)

\* a walked tree with files in the root, an empty directory and a
\* directory that produced a row
C4_Witness ==
  /\ pc # "walk"
  /\ Len(TreeWalked) > 0
  /\ Len(TreeWalked[1].files) > 0
  /\ \E k \in 2..Len(TreeWalked) : Len(TreeWalked[k].files) = 0
  /\ Len(inventory) = 1

\* the 8-digit values the header `label` yields over the files of a
\* directory: one per readable filing-details text with a matching line
Matched(files, label) ==
  UNION { { SubSeq(files[f].content[n].digits, 1, 8) :
              n \in { m \in 1..Len(files[f].content) :
                        /\ files[f].name = << "filing-details", ".txt" >>
                        /\ files[f].readable
                        /\ files[f].content[m].label = label
                        /\ files[f].content[m].ws > 0
                        /\ Len(files[f].content[m].digits) >= 8
                        /\ files[f].content[m].end <= 10000 } } :
          f \in 1..Len(files) }

Dashed(d) ==
  << d[1], d[2], d[3], d[4], "-", d[5], d[6], "-", d[7], d[8] >>

FieldOk(value, files, label) ==
  IF Matched(files, label) = {} THEN value = << "Unknown" >>
  ELSE \E d \in Matched(files, label) : value = Dashed(d)

\* the k-th directory of the tree that holds a file
RECURSIVE NthHolding(_, _)
NthHolding(tree, k) ==
  LET first == CHOOSE d \in Holding(tree) : \A e \in Holding(tree) : d <= e
  IN IF k = 1 THEN tree[first]
     ELSE NthHolding(SubSeq(tree, first + 1, Len(tree)), k - 1)

\* C8: metadata extraction never suppresses a row and never fails: after
\* the walk every directory below the root with at least one file has
\* exactly one row, in walk order, also when the filing-details file is
\* absent, unreadable or lacks the header lines; filing_date is "Unknown"
\* unless a filing-details text matched FILED AS OF DATE, period_of_report
\* is "Unknown" unless one matched CONFORMED PERIOD OF REPORT, each decided
\* on its own, and a matched YYYYMMDD is emitted as YYYY-MM-DD.
C8_Theorem ==
  pc # "walk" =>
    /\ Len(inventory) = Cardinality(Holding(TreeWalked))
    /\ \A k \in 1..Len(inventory) :
         LET dir == NthHolding(TreeWalked, k)
         IN /\ inventory[k].accession_number = dir.path[Len(dir.path)]
            /\ inventory[k].file_count = Len(dir.files)
            /\ FieldOk(inventory[k].filing_date, dir.files, FiledLabel)
            /\ FieldOk(inventory[k].period_of_report, dir.files, PeriodLabel)

\* a row of a directory with an unreadable filing-details file and a
\* readable one that has the period line only
C8_Witness ==
  /\ pc # "walk"
  /\ \E k \in 1..Len(inventory) :
       /\ inventory[k].filing_date = Unknown
       /\ inventory[k].period_of_report = Dashed(D20221231)
       /\ inventory[k].file_count = 2
       /\ \E f \in 1..2 : ~NthHolding(TreeWalked, k).files[f].readable

\* ------------------------------------------------------------------ C6
YearOf(date) == CHOOSE y \in MinYear..MaxYear : SubSeq(date, 1, 4) = YearText(y)

\* the filing type the latest limit was computed for
LimitType == IF pc = "limited" THEN filing_types[j] ELSE filing_types[j - 1]

\* C6: the limit is a positive integer, max(5, years) for 10-K and
\* max(15, years * 4) for 10-Q with years = end_year - start_year + 1, also
\* for end_year < start_year; (10-K, 2020, 2023) gives 5 and
\* (10-Q, 2020, 2023) gives 16.
C6_Theorem ==
  (pc = "limited" \/ j > 1) =>
    LET years == YearOf(end_date) - YearOf(start_date) + 1
    IN /\ limit \in Nat /\ limit > 0
       /\ LimitType = "10-K" => limit = (IF years > 5 THEN years ELSE 5)
       /\ LimitType = "10-Q" => limit = (IF years * 4 > 15 THEN years * 4 ELSE 15)
       /\ (YearOf(start_date) = 2020 /\ YearOf(end_date) = 2023) =>
            limit = (IF LimitType = "10-K" THEN 5 ELSE 16)

\* the limit of (10-Q, 2020, 2023) has been computed
C6_Witness ==
  /\ pc = "limited"
  /\ LimitType = "10-Q"
  /\ YearOf(start_date) = 2020 /\ YearOf(end_date) = 2023
  /\ limit = 16

\* ------------------------------------------------------------------ C5
KeysOf(rows) == { << rows[k].ticker, rows[k].filing_type >> : k \in 1..Len(rows) }

RowsWith(key, rows) ==
  { k \in 1..Len(rows) : << rows[k].ticker, rows[k].filing_type >> = key }

RECURSIVE FilesOver(_, _)
FilesOver(S, rows) ==
  IF S = {} THEN 0
  ELSE LET k == CHOOSE x \in S : TRUE
       IN rows[k].file_count + FilesOver(S \ {k}, rows)

C5_Summary ==
  analyses > 0 =>
    /\ Len(summary) = Cardinality(KeysOf(inventory))
    /\ \A key \in KeysOf(inventory) :
         \E k \in 1..Len(summary) :
           /\ << summary[k].ticker, summary[k].filing_type >> = key
           /\ summary[k].filing_count = Cardinality(RowsWith(key, inventory))
           /\ summary[k].total_files = FilesOver(RowsWith(key, inventory), inventory)
    /\ inventory = << >> => summary = << >>
    /\ analyses > 1 => summary = prevSummary

\* C5: analyze_results returns exactly one row per (ticker, filing_type)
\* key of the inventory, with filing_count the number of rows of the key
\* and total_files the sum of their file_count; a table without rows for
\* the empty inventory; the same output when applied again; and it leaves
\* the inventory as it was.
C5_Theorem == [](C5_Summary) /\ [][inventory' = inventory]_vars

\* analyze_results applied twice to an inventory with two rows of one key
\* and a row of another
C5_Witness ==
  /\ analyses = 2
  /\ Len(inventory) = 3
  /\ Len(summary) = 2
  /\ \E k \in 1..2 : summary[k].filing_count = 2 /\ summary[k].total_files = 3

\* ----------------------------------------------------------------- C10
Rows(inv) == { inv[k] : k \in 1..Len(inv) }

Keys(inv) == { Key(inv[k]) : k \in 1..Len(inv) }

\* C10 as stated: a re-run has rows the previous run's inventory did not
\* contain only if a fetch of the re-run returned new accession numbers.
C10_Original ==
  (run > 1 /\ Rows(inventory) \ Rows(prevInventory) # {}) => added # {}

\* C10 as amended: a row of a re-run whose (ticker, filing_type,
\* accession_number) the previous run's inventory did not contain is the
\* row of an accession directory a fetch of the re-run created, or the row
\* of a pair whose fetch raised in the previous run.
C10_Amended ==
  run > 1 =>
    \A k \in 1..Len(inventory) :
      Key(inventory[k]) \notin Keys(prevInventory) =>
        \/ << << inventory[k].ticker, inventory[k].filing_type >>,
              inventory[k].accession_number >> \in added
        \/ << inventory[k].ticker, inventory[k].filing_type >> \in prevRaised

\* a re-run that created nothing indexes a directory the previous run's
\* raising fetch left on disk
C10_Witness ==
  /\ run > 1
  /\ added = {}
  /\ \E k \in 1..Len(inventory) :
       /\ Key(inventory[k]) \notin Keys(prevInventory)
       /\ << inventory[k].ticker, inventory[k].filing_type >> \in prevRaised

====
